---- MODULE Spec2Model ----
(***************************************************************************)
(* DocReporter: PDF -> chunks -> vectors -> retrieval -> generated report. *)
(*                                                                         *)
(* Spec        the three command-line stages (process_pdf.py, analyst.py,  *)
(*             generate_report.py) run over the shared documents folder,   *)
(*             either sequenced by the Airflow DAG or invoked on their own.*)
(* SpecParser  the stand-alone section processor of Parser.py.             *)
(*                                                                         *)
(* Texts are sequences of one-token strings.  Python exceptions that leave *)
(* a script end the process with exit status 1.                            *)
(***************************************************************************)
EXTENDS Integers, Sequences, FiniteSets, TLC

VARIABLES
    mode,         \* "dag": the DAG is triggered; a stage: its script is run by hand
    env_key,      \* whether GROQ_API_KEY is set in the analyst's environment
    fs,           \* the documents folder: file name -> content
    task,         \* per stage: "none", "running", "success", "failed", "upstream_failed"
    exit_status,  \* per stage: -1 while it has not ended, else the process exit status
    run_order,    \* the stages in the order they were started
    cur,          \* the stage whose process is running, or "none"
    pc,           \* the position of the running process in its script
    snapshot,     \* the documents folder as it was when the running stage started
    chunk_size,   \* PDFIndexer.chunk_document's chunk_size argument
    overlap,      \* PDFIndexer.chunk_document's overlap argument
    indexer,      \* the PDFIndexer object and the locals of its methods
    analyst,      \* the AIAnalystRAG object and the locals of its methods
    reporter,     \* the PDFReportGenerator object and the locals of its methods
    parser        \* the PDFSectionProcessor object and the locals of its methods

vars == <<mode, env_key, fs, task, exit_status, run_order, cur, pc, snapshot,
          chunk_size, overlap, indexer, analyst, reporter, parser>>

pipeVars == <<mode, env_key, fs, task, exit_status, run_order, cur, pc, snapshot,
              chunk_size, overlap, indexer, analyst, reporter>>

-----------------------------------------------------------------------------
(* Bounds of the model.                                                    *)

MaxPages == 2
MaxPageLen == 2
MaxChunk == 3

-----------------------------------------------------------------------------
(* Texts and Python's list and string operations.                         *)

NL == "\n"

RECURSIVE Rep(_, _)
Rep(c, n) == IF n = 0 THEN <<>> ELSE <<c>> \o Rep(c, n - 1)

Min(a, b) == IF a <= b THEN a ELSE b

\* s[lo:hi] of Python for 0 <= lo: the slice is cut at the end of s.
Slice(s, lo, hi) == SubSeq(s, lo + 1, Min(hi, Len(s)))

\* seq[i] of Python for a list of n >= 1 elements: a negative i counts from the end.
PyIndex(s, i) == IF i >= 0 THEN s[i + 1] ELSE s[Len(s) + i + 1]

\* ceil(a / b) for b > 0.
CeilDiv(a, b) == -((-a) \div b)

-----------------------------------------------------------------------------
(* The documents folder.                                                   *)

PDF_IN == "input/sample.pdf"
VECTOR_DB == "output/vector_database.json"
ANALYST_REPORT == "output/analyst_report.json"
FINAL_REPORT == "output/final_report.pdf"
TEMP_PLOT == "output/temp_plot.png"

Files == {PDF_IN, VECTOR_DB, ANALYST_REPORT, FINAL_REPORT, TEMP_PLOT}

Stages == <<"index", "analyze", "report">>
StageSet == {"index", "analyze", "report"}

\* A dict of the analysis report: keys holds the keys that are set.
EmptyDict == [keys |-> {}, key_insights |-> <<>>, revenue_suggestions |-> <<>>,
              plot_code |-> <<>>]

\* kind: "absent" (no such file), "garbage" (bytes no reader parses),
\* "pdf" (list: the page texts), "json_list" (list: the items),
\* "json_dict" (dict: the mapping), "rendered" (a written PDF), "png".
File(kind, list, dict) == [kind |-> kind, list |-> list, dict |-> dict]

Absent == File("absent", <<>>, EmptyDict)
Garbage == File("garbage", <<>>, EmptyDict)

-----------------------------------------------------------------------------
(* Processes: a stage's script runs as one process at a time.              *)

\* The process of stage s ends with exit status code; the DockerOperator of
\* the stage succeeds exactly when the status is 0.
Finish(s, code) ==
    /\ exit_status' = [exit_status EXCEPT ![s] = code]
    /\ task' = [task EXCEPT ![s] = IF code = 0 THEN "success" ELSE "failed"]
    /\ cur' = "none"
    /\ pc' = "idle"

\* The process of stage s goes on to position p.
Goto(p) ==
    /\ pc' = p
    /\ UNCHANGED <<exit_status, task, cur>>

Start(s) ==
    /\ cur' = s
    /\ pc' = "main"
    /\ task' = [task EXCEPT ![s] = "running"]
    /\ run_order' = Append(run_order, s)
    /\ snapshot' = fs
    /\ UNCHANGED <<mode, env_key, fs, exit_status, chunk_size, overlap,
                   indexer, analyst, reporter, parser>>

\* task_process >> task_analyze >> task_report.
\* The task directly upstream of s in the chain.
DirectUpstream(s) ==
    CASE s = "index" -> {}
      [] s = "analyze" -> {"index"}
      [] s = "report" -> {"analyze"}

\* Airflow's default trigger rule all_success: a task starts once every
\* task directly upstream of it has succeeded.
DagStart(s) ==
    /\ mode = "dag"
    /\ cur = "none"
    /\ task[s] = "none"
    /\ \A u \in DirectUpstream(s) : task[u] = "success"
    /\ Start(s)

\* A task whose upstream task failed (or was itself not run) is never run.
DagUpstreamFailed(s) ==
    /\ mode = "dag"
    /\ cur = "none"
    /\ task[s] = "none"
    /\ \E u \in DirectUpstream(s) : task[u] \in {"failed", "upstream_failed"}
    /\ task' = [task EXCEPT ![s] = "upstream_failed"]
    /\ UNCHANGED <<mode, env_key, fs, exit_status, run_order, cur, pc, snapshot,
                   chunk_size, overlap, indexer, analyst, reporter, parser>>

\* A stage script invoked by hand with its two path arguments.
CliInvoke(s) ==
    /\ mode = s
    /\ cur = "none"
    /\ run_order = <<>>
    /\ Start(s)

-----------------------------------------------------------------------------
(* Stage 1: process_app/process_pdf.py                                     *)

RECURSIVE FullText(_)
\* for page in self.doc: full_text += page.get_text("text") + "\n"
FullText(doc) ==
    IF doc = <<>> THEN <<>> ELSE Head(doc) \o <<NL>> \o FullText(Tail(doc))

\* The embedding model is a deterministic function of the text; the model
\* stands for it by a one-dimensional vector: the number of letters.
Embed(text) == <<Cardinality({i \in 1..Len(text) : text[i] = "a"})>>

\* self.model.encode(chunks): one vector per text, in order.
Encode(texts) == [i \in 1..Len(texts) |-> Embed(texts[i])]

\* start += chunk_size - overlap
NextStart(start, size, ov) == start + size - ov

\* The records numbered from 1.
VectorDatabaseFromOne(chunks, vectors) ==
    [i \in 1..Min(Len(chunks), Len(vectors)) |->
        [chunk_id |-> i, content |-> chunks[i], vector |-> vectors[i]]]

\* for i, (chunk, vector) in enumerate(zip(chunks, vectors)): append a record
VectorDatabaseOf(chunks, vectors) ==
    [i \in 1..Min(Len(chunks), Len(vectors)) |->
        [chunk_id |-> i - 1, content |-> chunks[i], vector |-> vectors[i]]]

IndexerUnchanged == UNCHANGED <<mode, env_key, run_order, snapshot, chunk_size,
                                overlap, analyst, reporter, parser>>

\* PDFIndexer.__init__: fitz.open raises on a missing or corrupt document.
IndexerInit ==
    /\ cur = "index" /\ pc = "main"
    /\ IF fs[PDF_IN].kind = "pdf"
          THEN /\ indexer' = [indexer EXCEPT !.doc = fs[PDF_IN].list]
               /\ Goto("chunk_document")
          ELSE /\ Finish("index", 1)
               /\ UNCHANGED indexer
    /\ UNCHANGED fs
    /\ IndexerUnchanged

\* chunk_document, up to the loop.
ChunkDocumentBegin ==
    /\ cur = "index" /\ pc = "chunk_document"
    /\ indexer' = [indexer EXCEPT !.full_text = FullText(indexer.doc),
                                  !.chunks = <<>>,
                                  !.start = 0]
    /\ Goto("chunk_loop")
    /\ UNCHANGED fs
    /\ IndexerUnchanged

\* One turn of the while loop of chunk_document.
ChunkDocumentStep ==
    /\ cur = "index" /\ pc = "chunk_loop"
    /\ indexer.start < Len(indexer.full_text)
    /\ indexer' = [indexer EXCEPT
          !.chunks = Append(@, Slice(indexer.full_text, indexer.start,
                                     indexer.start + chunk_size)),
          !.start = NextStart(@, chunk_size, overlap)]
    /\ Goto("chunk_loop")
    /\ UNCHANGED fs
    /\ IndexerUnchanged

\* The loop of chunk_document ends and the chunks are returned.
ChunkDocumentReturn ==
    /\ cur = "index" /\ pc = "chunk_loop"
    /\ ~(indexer.start < Len(indexer.full_text))
    /\ Goto("create_vector_database")
    /\ UNCHANGED <<fs, indexer>>
    /\ IndexerUnchanged

CreateVectorDatabase ==
    /\ cur = "index" /\ pc = "create_vector_database"
    /\ indexer' = [indexer EXCEPT !.vector_database =
                      VectorDatabaseOf(indexer.chunks, Encode(indexer.chunks))]
    /\ Goto("write")
    /\ UNCHANGED fs
    /\ IndexerUnchanged

\* PDFIndexer.process: json.dump(vector_database) to the output path.
IndexerWrite ==
    /\ cur = "index" /\ pc = "write"
    /\ fs' = [fs EXCEPT ![VECTOR_DB] =
                 File("json_list", indexer.vector_database, EmptyDict)]
    /\ Finish("index", 0)
    /\ UNCHANGED indexer
    /\ IndexerUnchanged

IndexerNext ==
    \/ IndexerInit
    \/ ChunkDocumentBegin
    \/ ChunkDocumentStep
    \/ ChunkDocumentReturn
    \/ CreateVectorDatabase
    \/ IndexerWrite

-----------------------------------------------------------------------------
(* Stage 2: analyst_app/analyst.py                                         *)

DefaultK == 5

SEP == "\n---\n"
\* The opening fence of a Python code block, three backticks and "python".
FENCE_PY == "<fence>python"
\* Three backticks.
FENCE == "<fence>"
NoData == <<"No data available">>

Whitespace == {" ", NL}

Contains(text, tok) == \E i \in 1..Len(text) : text[i] = tok

FirstIndex(text, tok) == CHOOSE i \in 1..Len(text) :
                            text[i] = tok /\ \A j \in 1..(i - 1) : text[j] # tok

RECURSIVE Split(_, _)
\* text.split(tok): the parts of text between the occurrences of tok.
Split(text, tok) ==
    IF ~Contains(text, tok) THEN <<text>>
    ELSE LET i == FirstIndex(text, tok)
         IN <<SubSeq(text, 1, i - 1)>> \o Split(SubSeq(text, i + 1, Len(text)), tok)

RECURSIVE LStrip(_)
LStrip(text) ==
    IF text # <<>> /\ Head(text) \in Whitespace THEN LStrip(Tail(text)) ELSE text

RECURSIVE RStrip(_)
RStrip(text) ==
    IF text # <<>> /\ text[Len(text)] \in Whitespace
       THEN RStrip(SubSeq(text, 1, Len(text) - 1)) ELSE text

\* text.strip()
Strip(text) == RStrip(LStrip(text))

RECURSIVE Join(_, _)
\* sep.join(parts)
Join(sep, parts) ==
    IF parts = <<>> THEN <<>>
    ELSE IF Len(parts) = 1 THEN parts[1]
    ELSE parts[1] \o <<sep>> \o Join(sep, Tail(parts))

RECURSIVE SquaredL2(_, _)
\* The squared Euclidean distance of IndexFlatL2.
SquaredL2(u, v) ==
    IF u = <<>> \/ v = <<>> THEN 0
    ELSE (Head(u) - Head(v)) * (Head(u) - Head(v)) + SquaredL2(Tail(u), Tail(v))

\* np.array(vectors).shape: a list of n >= 1 vectors of length d is an
\* (n, d) array, the empty list a one-dimensional array of length 0.
Shape(vectors) ==
    IF vectors = <<>> THEN <<0>> ELSE <<Len(vectors), Len(vectors[1])>>

\* index.search(query, k)[1][0]: the positions (from 0) of the k nearest
\* vectors by ascending distance, ties in insertion order; FAISS fills the
\* places past the number of vectors with -1.
Search(vectors, query, k) ==
    LET n == Len(vectors)
        Before(i, j) == \/ SquaredL2(vectors[i], query) < SquaredL2(vectors[j], query)
                        \/ /\ SquaredL2(vectors[i], query) = SquaredL2(vectors[j], query)
                           /\ i < j
        Rank(i) == Cardinality({j \in 1..n : Before(j, i)})
    IN [r \in 1..k |-> IF r <= n THEN (CHOOSE i \in 1..n : Rank(i) = r - 1) - 1
                                 ELSE -1]

\* retrieved_chunks = [self.database[i][content] for i in I[0]]
RetrievedChunks(database, labels) ==
    [r \in 1..Len(labels) |-> PyIndex(database, labels[r]).content]

\* AIAnalystRAG.retrieve, from the embedded query on.
Retrieve(database, vectors, query, k) ==
    Join(SEP, RetrievedChunks(database, Search(vectors, query, k)))

\* The clean-up of the code block in run_analysis.
CleanUp(raw_code) ==
    IF Contains(raw_code, FENCE_PY)
       THEN Strip(PyIndex(Split(PyIndex(Split(raw_code, FENCE_PY), 1), FENCE), 0))
       ELSE raw_code

\* f"Error: {e}", the value generate returns when the call raises.
ErrorText == <<"Error:", " ", "e">>

Tasks == <<"themes", "revenue", "visualization">>

\* The embeddings the model may give the three query sentences.
QueryVectors == {<<0>>, <<MaxChunk>>}

\* The texts the completion service may answer with.
Completions(t) ==
    IF t = "visualization"
       THEN { <<"prose">>,
              NoData,
              NoData \o <<".">>,
              <<"prose", NL, FENCE_PY, NL, "code", NL, FENCE, NL, "prose">>,
              <<FENCE_PY, NL, "code">>,
              <<FENCE, NL, "code", NL, FENCE>>,
              <<FENCE_PY, NL, FENCE>> }
       ELSE { <<"prose">> }

AnalystUnchanged == UNCHANGED <<mode, env_key, run_order, snapshot, chunk_size,
                                overlap, indexer, reporter, parser>>

\* An __init__ that opens the report for writing before it loads the database.
AnalystInitOpensOutput ==
    /\ cur = "analyze" /\ pc = "main"
    /\ fs' = [fs EXCEPT ![ANALYST_REPORT] = Garbage]
    /\ IF env_key /\ fs[VECTOR_DB].kind \in {"json_list", "json_dict"}
          THEN /\ analyst' = [analyst EXCEPT !.database = fs[VECTOR_DB]]
               /\ Goto("build_faiss_index")
          ELSE /\ Finish("analyze", 1)
               /\ UNCHANGED analyst
    /\ AnalystUnchanged

\* AIAnalystRAG.__init__ up to json.load: a missing key raises ValueError,
\* a missing or unparsable file raises from open or json.load.
AnalystInit ==
    /\ cur = "analyze" /\ pc = "main"
    /\ IF env_key /\ fs[VECTOR_DB].kind \in {"json_list", "json_dict"}
          THEN /\ analyst' = [analyst EXCEPT !.database = fs[VECTOR_DB]]
               /\ Goto("build_faiss_index")
          ELSE /\ Finish("analyze", 1)
               /\ UNCHANGED analyst
    /\ UNCHANGED fs
    /\ AnalystUnchanged

\* build_faiss_index: item[vector] raises on the keys of a dict, and
\* shape[1] raises IndexError on the one-dimensional array of no vectors.
BuildFaissIndex ==
    /\ cur = "analyze" /\ pc = "build_faiss_index"
    /\ LET db == analyst.database
           vectors == [i \in 1..Len(db.list) |-> db.list[i].vector]
       IN IF \/ db.kind = "json_dict" /\ db.dict.keys # {}
             \/ Len(Shape(vectors)) < 2
             THEN /\ Finish("analyze", 1)
                  /\ UNCHANGED analyst
             ELSE /\ analyst' = [analyst EXCEPT !.vectors = vectors,
                                                !.ntotal = Len(vectors)]
                  /\ Goto("retrieve")
    /\ UNCHANGED fs
    /\ AnalystUnchanged

\* The task run_analysis is at: the number of generate calls made so far.
CurrentTask == Tasks[Len(analyst.calls) + 1]

\* context = self.retrieve(query) with the default k.
RetrieveContext ==
    /\ cur = "analyze" /\ pc = "retrieve"
    /\ \E query \in QueryVectors :
          analyst' = [analyst EXCEPT
              !.query_vector = query,
              !.context = Retrieve(analyst.database.list, analyst.vectors, query,
                                   DefaultK)]
    /\ Goto("generate")
    /\ UNCHANGED fs
    /\ AnalystUnchanged

\* What run_analysis does with the text generate returned for task t; the
\* query vector and the context, locals of the calls that have returned,
\* are not read again.
Store(t, text) ==
    CASE t = "themes" ->
            [analyst EXCEPT !.final_report.key_insights = text,
                            !.final_report.keys = @ \cup {"key_insights"},
                            !.calls = Append(@, t), !.context = <<>>,
                            !.query_vector = <<>>]
      [] t = "revenue" ->
            [analyst EXCEPT !.final_report.revenue_suggestions = text,
                            !.final_report.keys = @ \cup {"revenue_suggestions"},
                            !.calls = Append(@, t), !.context = <<>>,
                            !.query_vector = <<>>]
      [] t = "visualization" ->
            [analyst EXCEPT !.raw_code = text, !.completion = text,
                            !.calls = Append(@, t), !.context = <<>>,
                            !.query_vector = <<>>]

\* A generate without the try/except: a failed call ends the process.
GenerateUncaught(t) ==
    /\ cur = "analyze" /\ pc = "generate"
    /\ t = CurrentTask
    /\ \/ /\ \E text \in Completions(t) : analyst' = Store(t, text)
          /\ Goto(IF t = "visualization" THEN "clean_up" ELSE "retrieve")
       \/ /\ analyst' = [analyst EXCEPT !.failed = @ \cup {t}]
          /\ Finish("analyze", 1)
    /\ UNCHANGED fs
    /\ AnalystUnchanged

\* self.generate(prompt, context) for task t: the completion, or the error
\* text when the call raises (caught inside generate).
Generate(t) ==
    /\ cur = "analyze" /\ pc = "generate"
    /\ t = CurrentTask
    /\ \/ \E text \in Completions(t) : analyst' = Store(t, text)
       \/ analyst' = [Store(t, ErrorText) EXCEPT !.failed = @ \cup {t}]
    /\ Goto(IF t = "visualization" THEN "clean_up" ELSE "retrieve")
    /\ UNCHANGED fs
    /\ AnalystUnchanged

\* run_analysis: clean up the code block and set the visualization entry of final_report.
CleanUpCode ==
    /\ cur = "analyze" /\ pc = "clean_up"
    /\ analyst' = [analyst EXCEPT
          !.raw_code = CleanUp(analyst.raw_code),
          !.final_report.plot_code = CleanUp(analyst.raw_code),
          !.final_report.keys = @ \cup {"visualization"}]
    /\ Goto("write")
    /\ UNCHANGED fs
    /\ AnalystUnchanged

\* run_analysis: json.dump(final_report) to the output path.
AnalystWrite ==
    /\ cur = "analyze" /\ pc = "write"
    /\ fs' = [fs EXCEPT ![ANALYST_REPORT] =
                 File("json_dict", <<>>, analyst.final_report)]
    /\ Finish("analyze", 0)
    /\ UNCHANGED analyst
    /\ AnalystUnchanged

AnalystNext ==
    \/ AnalystInit
    \/ BuildFaissIndex
    \/ RetrieveContext
    \/ \E t \in {"themes", "revenue", "visualization"} : Generate(t)
    \/ CleanUpCode
    \/ AnalystWrite

-----------------------------------------------------------------------------
(* Stage 3: report_app/generate_report.py                                  *)

ReporterUnchanged == UNCHANGED <<mode, env_key, run_order, snapshot, chunk_size,
                                 overlap, indexer, analyst, parser>>

\* PDFReportGenerator.__init__: any failure to load the JSON is caught and
\* answered with sys.exit(1).
ReporterInit ==
    /\ cur = "report" /\ pc = "main"
    /\ IF fs[ANALYST_REPORT].kind \in {"json_list", "json_dict"}
          THEN /\ reporter' = [reporter EXCEPT !.data = fs[ANALYST_REPORT]]
               /\ Goto("generate_report")
          ELSE /\ Finish("report", 1)
               /\ UNCHANGED reporter
    /\ UNCHANGED fs
    /\ ReporterUnchanged

\* generate_report up to the call of execute_plot_code: self.data.get
\* raises AttributeError when the loaded JSON is a list.
GenerateReportBegin ==
    /\ cur = "report" /\ pc = "generate_report"
    /\ IF reporter.data.kind = "json_dict"
          THEN Goto("execute_plot_code")
          ELSE Finish("report", 1)
    /\ UNCHANGED <<fs, reporter>>
    /\ ReporterUnchanged

\* viz_data.get("plot_code"): None (here the empty text) without the entry.
PlotCode(data) ==
    IF "visualization" \in data.dict.keys THEN data.dict.plot_code ELSE <<>>

\* if not code or code == "No data available": return False
NoPlotCode(code) == code = <<>> \/ code = NoData

\* Whether Python runs the text as a program: it holds code and nothing
\* else.  Any other text makes exec raise before it has done anything.
RunsAsPython(text) ==
    /\ Contains(text, "code")
    /\ \A i \in 1..Len(text) : text[i] \in {"code"} \cup Whitespace

\* What the executed program may do to the mounted documents folder: the
\* text is the completion service's, so it may leave the files alone or
\* overwrite any one of them.
ExecEffects(text) ==
    IF RunsAsPython(text)
       THEN {fs} \cup {[fs EXCEPT ![f] = Garbage] : f \in Files}
       ELSE {fs}

\* execute_plot_code: without code nothing is executed; else exec(code)
\* either raises (caught, False) or returns, and the figure is saved.
ExecutePlotCode ==
    /\ cur = "report" /\ pc = "execute_plot_code"
    /\ LET code == PlotCode(reporter.data)
       IN IF NoPlotCode(code)
             THEN /\ reporter' = [reporter EXCEPT !.plotted = FALSE]
                  /\ Goto("write")
                  /\ UNCHANGED fs
             ELSE \E after \in ExecEffects(code) :
                  \/ /\ reporter' = [reporter EXCEPT !.exec_log = Append(@, code),
                                                     !.plotted = FALSE]
                     /\ Goto("write")
                     /\ fs' = after
                  \/ /\ RunsAsPython(code)
                     /\ reporter' = [reporter EXCEPT !.exec_log = Append(@, code),
                                                     !.plotted = TRUE]
                     /\ fs' = [after EXCEPT ![TEMP_PLOT] = File("png", <<>>, EmptyDict)]
                     /\ Goto("embed")
    /\ ReporterUnchanged

\* pdf.image(plot_path) and os.remove(plot_path).
EmbedPlot ==
    /\ cur = "report" /\ pc = "embed"
    /\ fs' = [fs EXCEPT ![TEMP_PLOT] = Absent]
    /\ Goto("write")
    /\ UNCHANGED reporter
    /\ ReporterUnchanged

\* pdf.output(self.output_pdf_path)
ReporterWrite ==
    /\ cur = "report" /\ pc = "write"
    /\ fs' = [fs EXCEPT ![FINAL_REPORT] = File("rendered", <<>>, reporter.data.dict)]
    /\ Finish("report", 0)
    /\ UNCHANGED reporter
    /\ ReporterUnchanged

ReporterNext ==
    \/ ReporterInit
    \/ GenerateReportBegin
    \/ ExecutePlotCode
    \/ EmbedPlot
    \/ ReporterWrite

-----------------------------------------------------------------------------
(* The pipeline: initial states and next-state relation.                   *)

SeqsUpTo(S, n) == UNION {[1..m -> S] : m \in 0..n}

PageTexts == {Rep("a", n) : n \in 0..MaxPageLen}

Docs == SeqsUpTo(PageTexts, MaxPages)

AllKeys == {"key_insights", "revenue_suggestions", "visualization"}

\* Artifacts a previous run left in the output folder.
StaleDb == File("json_list",
                VectorDatabaseOf(<<<<"a", NL>>>>, Encode(<<<<"a", NL>>>>)), EmptyDict)

StaleDict == [keys |-> AllKeys, key_insights |-> <<"prose">>,
              revenue_suggestions |-> <<"prose">>, plot_code |-> <<"code">>]

StaleReport == File("json_dict", <<>>, StaleDict)

StaleFinal == File("rendered", <<>>, StaleDict)

EmptyList == File("json_list", <<>>, EmptyDict)

EmptyObject == File("json_dict", <<>>, EmptyDict)

InFile(s) ==
    CASE s = "index" -> PDF_IN
      [] s = "analyze" -> VECTOR_DB
      [] s = "report" -> ANALYST_REPORT

OutFile(s) ==
    CASE s = "index" -> VECTOR_DB
      [] s = "analyze" -> ANALYST_REPORT
      [] s = "report" -> FINAL_REPORT

Stale(f) ==
    CASE f = VECTOR_DB -> StaleDb
      [] f = ANALYST_REPORT -> StaleReport
      [] f = FINAL_REPORT -> StaleFinal

\* What a stage run by hand may find at its input path.
Inputs(s) ==
    CASE s = "index" -> {Absent, Garbage} \cup {File("pdf", d, EmptyDict) : d \in Docs}
      [] s = "analyze" -> {Absent, Garbage, EmptyObject, StaleReport, EmptyList, StaleDb}
      [] s = "report" -> {Absent, Garbage, EmptyList, StaleDb, EmptyObject, StaleReport,
                          File("json_dict", <<>>, [StaleDict EXCEPT !.plot_code = NoData]),
                          File("json_dict", <<>>, [StaleDict EXCEPT !.plot_code = ErrorText])}

NoFiles == [f \in Files |-> Absent]

IndexerIdle == [doc |-> <<>>, full_text |-> <<>>, start |-> 0, chunks |-> <<>>,
                vector_database |-> <<>>]

AnalystIdle == [database |-> Absent, vectors |-> <<>>, ntotal |-> 0,
                query_vector |-> <<>>, context |-> <<>>,
                final_report |-> EmptyDict, raw_code |-> <<>>, completion |-> <<>>,
                calls |-> <<>>, failed |-> {}]

ReporterIdle == [data |-> Absent, exec_log |-> <<>>, plotted |-> FALSE]

ParserIdle == [pc |-> "idle"]

InitProcesses ==
    /\ task = [s \in StageSet |-> "none"]
    /\ exit_status = [s \in StageSet |-> -1]
    /\ run_order = <<>>
    /\ cur = "none"
    /\ pc = "idle"
    /\ snapshot = fs
    /\ indexer = IndexerIdle
    /\ analyst = AnalystIdle
    /\ reporter = ReporterIdle
    /\ parser = ParserIdle

\* mode "dag": the DAG is triggered on a folder that holds the document (or
\* not) and either no outputs or the outputs of a previous run.
\* mode s, a stage: the script of s is run by hand on any input file.
Init ==
    /\ chunk_size \in 1..MaxChunk
    /\ overlap \in 0..(chunk_size - 1)
    /\ env_key \in BOOLEAN
    /\ \/ /\ mode = "dag"
          /\ \E in \in Inputs("index"), old \in BOOLEAN :
                fs = [f \in Files |->
                         IF f = PDF_IN THEN in
                         ELSE IF old /\ f # TEMP_PLOT THEN Stale(f) ELSE Absent]
       \/ /\ mode \in StageSet
          /\ \E in \in Inputs(mode), out \in {Absent, Stale(OutFile(mode))} :
                fs = [NoFiles EXCEPT ![InFile(mode)] = in, ![OutFile(mode)] = out]
    /\ InitProcesses

DagNext ==
    \/ \E s \in StageSet : DagStart(s)
    \/ \E s \in StageSet : DagUpstreamFailed(s)
    \/ \E s \in StageSet : CliInvoke(s)

Next ==
    \/ DagNext
    \/ IndexerNext
    \/ AnalystNext
    \/ ReporterNext

Spec == Init /\ [][Next]_vars

-----------------------------------------------------------------------------
(* Properties of the pipeline, checked under Spec.                         *)

\* chunk_document has returned in the indexing process.
ChunkDocumentReturned ==
    \/ exit_status["index"] = 0
    \/ cur = "index" /\ pc \in {"create_vector_database", "write"}

\* C1: for chunk_size > 0, 0 <= overlap < chunk_size and a text of length
\* L >= 1, chunk_document returns exactly 1 chunk when L <= chunk_size and
\* ceil((L - overlap) / (chunk_size - overlap)) chunks otherwise.
C1_ChunkCount ==
    LET L == Len(indexer.full_text)
    IN ChunkDocumentReturned /\ L >= 1 =>
          IF L <= chunk_size
             THEN Len(indexer.chunks) = 1
             ELSE Len(indexer.chunks) = CeilDiv(L - overlap, chunk_size - overlap)

\* retrieve has returned in the analysis process and its context is at hand.
RetrieveReturned == cur = "analyze" /\ pc = "generate"

\* C2: on a database of n >= 1 records retrieve returns the contents of
\* exactly min(k, n) records, joined by the separator in ascending-distance
\* rank order, each record at most once.
C2_RetrieveClamped ==
    LET db == analyst.database.list
        m == Min(DefaultK, Len(db))
        nearest == Search(analyst.vectors, analyst.query_vector, m)
    IN RetrieveReturned /\ Len(db) >= 1 =>
          /\ analyst.context = Join(SEP, [r \in 1..m |-> db[nearest[r] + 1].content])
          /\ Len(Split(analyst.context, SEP)) = m
          /\ \A r1, r2 \in 1..m : nearest[r1] = nearest[r2] => r1 = r2

\* The analysis process has loaded a database of 0 records.
LoadedEmptyDatabase ==
    /\ analyst.database.kind = "json_list"
    /\ analyst.database.list = <<>>

\* C3: on a database of 0 records the index is built and reports 0 vectors,
\* and retrieve returns the empty context without raising.
C3_EmptyDatabase ==
    LoadedEmptyDatabase =>
       /\ exit_status["analyze"] # 1
       /\ analyst.ntotal = 0
       /\ RetrieveReturned => analyst.context = <<>>

\* The text between the first Python fence of raw and the fence closing it.
FenceContent(raw) ==
    LET rest == SubSeq(raw, FirstIndex(raw, FENCE_PY) + 1, Len(raw))
        closing == {j \in 1..Len(rest) : rest[j] \in {FENCE, FENCE_PY}}
        stop == IF closing = {} THEN Len(rest) + 1
                ELSE CHOOSE j \in closing : \A h \in closing : j <= h
    IN Strip(SubSeq(rest, 1, stop - 1))

\* C4: the stored plot_code is the text between the Python fence and its
\* closing fence, or the no-data sentinel; a completion without a fence
\* (the error text of a failed call included) is stored as the sentinel,
\* and only fenced code reaches exec.
C4_PlotCodeFencedOrSentinel ==
    /\ "visualization" \in analyst.final_report.keys =>
          IF Contains(analyst.completion, FENCE_PY)
             THEN analyst.final_report.plot_code = FenceContent(analyst.completion)
             ELSE analyst.final_report.plot_code = NoData
    /\ mode = "dag" =>
          \A i \in 1..Len(reporter.exec_log) :
             /\ Contains(analyst.completion, FENCE_PY)
             /\ reporter.exec_log[i] = FenceContent(analyst.completion)

\* The stage started last.
LastStarted == run_order[Len(run_order)]

\* run_analysis has been entered: the index was built.
RunAnalysisEntered == analyst.ntotal > 0

\* The entry run_analysis keeps for task t.
Entry(report, t) ==
    CASE t = "themes" -> report.key_insights
      [] t = "revenue" -> report.revenue_suggestions
      [] t = "visualization" -> report.plot_code

\* C6: whichever of the three completion calls fail, the failure is caught
\* in generate, the tasks run in the order themes, revenue, visualization,
\* and the report is written with all three entries, a failed task holding
\* the error placeholder; the stage never aborts.
C6_FailedTaskNeverAborts ==
    RunAnalysisEntered =>
       /\ analyst.calls = SubSeq(Tasks, 1, Len(analyst.calls))
       /\ analyst.failed \subseteq {analyst.calls[i] : i \in 1..Len(analyst.calls)}
       /\ exit_status["analyze"] # 1
       /\ exit_status["analyze"] = 0 => analyst.calls = Tasks
       /\ exit_status["analyze"] = 0 /\ LastStarted = "analyze" =>
             /\ fs[ANALYST_REPORT].kind = "json_dict"
             /\ fs[ANALYST_REPORT].dict.keys = AllKeys
             /\ \A t \in analyst.failed : Entry(fs[ANALYST_REPORT].dict, t) = ErrorText

C6_Witness ==
    /\ exit_status["analyze"] = 0
    /\ LastStarted = "analyze"
    /\ analyst.failed = {"themes", "revenue", "visualization"}
    /\ fs[ANALYST_REPORT].dict.keys = AllKeys

\* The input file a stage cannot use: no or an unreadable document for
\* indexing; no file, no JSON or no JSON list for analysis; no file, no
\* JSON or no JSON object for reporting.
Malformed(s, file) ==
    CASE s = "index" -> file.kind # "pdf"
      [] s = "analyze" -> file.kind \notin {"json_list"}
      [] s = "report" -> file.kind \notin {"json_dict"}

\* C7: a stage started on a missing or malformed input ends with a non-zero
\* exit status and leaves its output artifact as it was when it started.
C7_InputErrorFailsFast ==
    run_order # <<>> /\ Malformed(LastStarted, snapshot[InFile(LastStarted)]) =>
       /\ fs[OutFile(LastStarted)] = snapshot[OutFile(LastStarted)]
       /\ exit_status[LastStarted] # 0
       /\ cur = "none" => exit_status[LastStarted] > 0

C7_Witness ==
    /\ mode = "analyze"
    /\ snapshot[VECTOR_DB] = Garbage
    /\ exit_status["analyze"] = 1
    /\ fs[ANALYST_REPORT] = StaleReport

\* The files stage s may write: its output artifact, and for reporting the
\* temporary plot image it embeds and removes.
Writes(s) ==
    CASE s = "index" -> {VECTOR_DB}
      [] s = "analyze" -> {ANALYST_REPORT}
      [] s = "report" -> {FINAL_REPORT, TEMP_PLOT}
      [] OTHER -> {}

\* C9: in a pipeline run the stages start in the order indexing, analysis,
\* reporting, and every step of a stage leaves all files but its own output
\* unchanged: analysis never writes the vector database, reporting never
\* writes the vector database or the analysis report.
C9_StagesOwnTheirArtifacts ==
    /\ [](mode = "dag" => run_order = SubSeq(Stages, 1, Len(run_order)))
    /\ [][\A f \in Files \ Writes(cur) : fs'[f] = fs[f]]_vars

\* create_vector_database has returned in the indexing process.
VectorDatabaseCreated ==
    \/ exit_status["index"] = 0
    \/ cur = "index" /\ pc = "write"

\* C10: the chunk_id values of the records are 0, 1, ..., n-1 in record
\* order, n the number of chunks, and record i carries the i-th chunk.
C10_ChunkIdsContiguous ==
    LET db == indexer.vector_database
    IN VectorDatabaseCreated =>
          /\ Len(db) = Len(indexer.chunks)
          /\ \A i \in 1..Len(db) :
                /\ db[i].chunk_id = i - 1
                /\ db[i].content = indexer.chunks[i]
          /\ exit_status["index"] = 0 /\ LastStarted = "index" =>
                fs[VECTOR_DB] = File("json_list", db, EmptyDict)

C10_Witness ==
    /\ exit_status["index"] = 0
    /\ Len(indexer.vector_database) >= 3
    /\ indexer.vector_database[3].chunk_id = 2

-----------------------------------------------------------------------------
(* Parser.py: PDFSectionProcessor, a stand-alone script.                   *)

MaxTokenLimit == 1

CharsPerToken == 4

\* estimate_tokens(text) > limit, for len(text) / 4 in exact arithmetic.
EstimateExceeds(text, limit) == Len(text) > CharsPerToken * limit

\* The page texts the extractor may return: empty, blank, short, long.
ParserPageTexts == {<<>>, <<" ">>, <<"a">>, Rep("a", CharsPerToken + 1)}

ParserDocs == SeqsUpTo(ParserPageTexts, MaxPages)

\* message.content of the completion service for the heading-and-summary
\* prompt.  "H" and "S" stand for the members "custom_heading": "..." and
\* "summary": "...", "1" for a number.
LlmOutputs == { <<>>,
                <<"prose">>,
                <<"prose", NL, "{", "H", ",", "S", "}">>,
                <<" ", "{", "H", ",", "S", "}", NL>>,
                <<"{", "H", "}">>,
                <<"[", "]">>,
                <<"1">> }

RECURSIVE Unspaced(_)
\* The tokens of text that are not whitespace.
Unspaced(text) ==
    IF text = <<>> THEN <<>>
    ELSE IF Head(text) \in Whitespace THEN Unspaced(Tail(text))
    ELSE <<Head(text)>> \o Unspaced(Tail(text))

RECURSIVE Members(_)
\* Whether toks is a comma-separated list of one or more members.
Members(toks) ==
    /\ toks # <<>>
    /\ Head(toks) \in {"H", "S"}
    /\ \/ Len(toks) = 1
       \/ Len(toks) >= 3 /\ toks[2] = "," /\ Members(SubSeq(toks, 3, Len(toks)))

\* json.loads(text): kind "error" for JSONDecodeError, else the kind of the
\* JSON value, with the keys of an object.
JsonLoads(text) ==
    LET toks == Unspaced(text)
        n == Len(toks)
        inner == SubSeq(toks, 2, n - 1)
    IN IF toks = <<"1">> THEN [kind |-> "number", keys |-> {}]
       ELSE IF toks = <<"[", "]">> THEN [kind |-> "array", keys |-> {}]
       ELSE IF toks = <<"{", "}">> THEN [kind |-> "object", keys |-> {}]
       ELSE IF n >= 3 /\ toks[1] = "{" /\ toks[n] = "}" /\ Members(inner)
          THEN [kind |-> "object",
                keys |-> {inner[i] : i \in {j \in 1..Len(inner) : inner[j] # ","}}]
       ELSE [kind |-> "error", keys |-> {}]

\* The entry process appends for a chunk whose completion parsed to data,
\* or failed to parse: the fields read with llm_data.get(key, "").
ResultEntry(llm_output, chunk, tables) ==
    LET data == JsonLoads(llm_output)
    IN [custom_heading |-> IF data.kind = "object" /\ "H" \in data.keys
                              THEN <<"H">> ELSE <<>>,
        summary |-> IF data.kind = "error" THEN llm_output
                    ELSE IF "S" \in data.keys THEN <<"S">> ELSE <<>>,
        pages |-> chunk.pages,
        content |-> chunk.text,
        tables |-> tables]

ParserStart(pdf, limit) ==
    [pc |-> "main", exit |-> -1, pdf |-> pdf, doc |-> <<>>, token_limit |-> limit,
     page_num |-> 0, current_chunk_text |-> <<>>, current_chunk_pages |-> <<>>,
     chunks |-> <<>>, next |-> 1, llm_output |-> <<>>, results |-> <<>>,
     output |-> <<>>, written |-> FALSE]

ParserUnchanged == UNCHANGED pipeVars

\* PDFSectionProcessor.__init__: fitz.open raises on an unreadable document,
\* and the exception is raised again.
ParserInit ==
    /\ parser.pc = "main"
    /\ IF parser.pdf.kind = "pdf"
          THEN parser' = [parser EXCEPT !.doc = parser.pdf.list, !.pc = "chunk_loop"]
          ELSE parser' = [parser EXCEPT !.pc = "exit", !.exit = 1]
    /\ ParserUnchanged

\* A turn of the loop that never saves the current chunk: the page always
\* joins it.
ChunkPagesStepMerging ==
    /\ parser.pc = "chunk_loop"
    /\ parser.page_num < Len(parser.doc)
    /\ parser' = [parser EXCEPT
          !.current_chunk_text = @ \o <<NL>> \o parser.doc[parser.page_num + 1],
          !.current_chunk_pages = Append(@, parser.page_num + 1),
          !.page_num = @ + 1]
    /\ ParserUnchanged

\* One turn of the loop over the pages in chunk_pages_by_tokens.
ChunkPagesStep ==
    /\ parser.pc = "chunk_loop"
    /\ parser.page_num < Len(parser.doc)
    /\ LET page_text == parser.doc[parser.page_num + 1]
       IN IF /\ EstimateExceeds(parser.current_chunk_text \o page_text,
                                parser.token_limit)
             /\ parser.current_chunk_pages # <<>>
             THEN parser' = [parser EXCEPT
                     !.chunks = Append(@, [pages |-> parser.current_chunk_pages,
                                           text |-> Strip(parser.current_chunk_text)]),
                     !.current_chunk_text = page_text,
                     !.current_chunk_pages = <<parser.page_num + 1>>,
                     !.page_num = @ + 1]
             ELSE parser' = [parser EXCEPT
                     !.current_chunk_text = @ \o <<NL>> \o page_text,
                     !.current_chunk_pages = Append(@, parser.page_num + 1),
                     !.page_num = @ + 1]
    /\ ParserUnchanged

\* After the loop: the last chunk is saved and the chunks are returned.
ChunkPagesReturn ==
    /\ parser.pc = "chunk_loop"
    /\ parser.page_num = Len(parser.doc)
    /\ parser' = [parser EXCEPT
          !.chunks = IF parser.current_chunk_pages # <<>>
                        THEN Append(@, [pages |-> parser.current_chunk_pages,
                                        text |-> Strip(parser.current_chunk_text)])
                        ELSE @,
          !.pc = "query_llm"]
    /\ ParserUnchanged

\* query_llm for the next chunk: the stripped completion, or "" when the
\* call raises.
QueryLlm ==
    /\ parser.pc = "query_llm"
    /\ parser.next <= Len(parser.chunks)
    /\ \/ \E content \in LlmOutputs :
             parser' = [parser EXCEPT !.llm_output = Strip(content), !.pc = "parse"]
       \/ parser' = [parser EXCEPT !.llm_output = <<>>, !.pc = "parse"]
    /\ ParserUnchanged

\* What extract_tables_for_pages may return: no table (also when tabula
\* raises, which is caught) or the tables found.
TableResults == {<<>>, <<"table">>}

\* process: json.loads with the JSONDecodeError fallback, the tables of the
\* pages, then the entry is appended; llm_data.get raises AttributeError
\* when the JSON is no object.
ParseAndAppend ==
    /\ parser.pc = "parse"
    /\ IF JsonLoads(parser.llm_output).kind \in {"error", "object"}
          THEN \E tables \in TableResults :
                  parser' = [parser EXCEPT
                     !.results = Append(@, ResultEntry(parser.llm_output,
                                           parser.chunks[parser.next], tables)),
                     !.next = @ + 1,
                     !.pc = "query_llm"]
          ELSE parser' = [parser EXCEPT !.pc = "exit", !.exit = 1]
    /\ ParserUnchanged

\* process: json.dump(results) to the output path.
ParserWrite ==
    /\ parser.pc = "query_llm"
    /\ parser.next > Len(parser.chunks)
    /\ parser' = [parser EXCEPT !.output = parser.results, !.written = TRUE,
                                !.pc = "exit", !.exit = 0]
    /\ ParserUnchanged

InitParser ==
    /\ chunk_size = 1
    /\ overlap = 0
    /\ env_key = TRUE
    /\ mode = "parser"
    /\ fs = NoFiles
    /\ task = [s \in StageSet |-> "none"]
    /\ exit_status = [s \in StageSet |-> -1]
    /\ run_order = <<>>
    /\ cur = "none"
    /\ pc = "idle"
    /\ snapshot = fs
    /\ indexer = IndexerIdle
    /\ analyst = AnalystIdle
    /\ reporter = ReporterIdle
    /\ \E pdf \in {Garbage} \cup {File("pdf", d, EmptyDict) : d \in ParserDocs},
          limit \in 0..MaxTokenLimit :
          parser = ParserStart(pdf, limit)

ParserNext ==
    \/ ParserInit
    \/ ChunkPagesStep
    \/ ChunkPagesReturn
    \/ QueryLlm
    \/ ParseAndAppend
    \/ ParserWrite

SpecParser == InitParser /\ [][ParserNext]_vars

-----------------------------------------------------------------------------
(* Properties of the section processor, checked under SpecParser.          *)

\* C5: whatever text the completion service returns for a chunk, process
\* raises nothing and appends an entry for the chunk; for a text that is
\* not the expected JSON object the entry keeps the raw text in summary and
\* the empty default in custom_heading.
C5_ParseFallback ==
    /\ parser.pdf.kind = "pdf" => parser.exit # 1
    /\ parser.pc = "query_llm" /\ parser.next > 1 =>
          /\ Len(parser.results) = parser.next - 1
          /\ ~(JsonLoads(parser.llm_output).kind = "object"
               /\ JsonLoads(parser.llm_output).keys = {"H", "S"}) =>
                /\ parser.results[parser.next - 1].summary = parser.llm_output
                /\ parser.results[parser.next - 1].custom_heading = <<>>

\* C8: every chunk of either chunker has non-empty content: no chunk
\* returned by chunk_pages_by_tokens has the empty text (blank pages
\* included), and no element returned by chunk_document is empty.
C8_ChunksNonEmpty ==
    /\ \A i \in 1..Len(parser.chunks) : parser.chunks[i].text # <<>>
    /\ \A i \in 1..Len(indexer.chunks) : indexer.chunks[i] # <<>>

-----------------------------------------------------------------------------
(* chunk_pages_by_tokens on its own, over longer documents: the processor  *)
(* is constructed and the chunker is run to its return.                    *)

MaxChunkerPages == 3

ChunkerDocs == SeqsUpTo(ParserPageTexts, MaxChunkerPages)

InitChunker ==
    /\ chunk_size = 1
    /\ overlap = 0
    /\ env_key = TRUE
    /\ mode = "parser"
    /\ fs = NoFiles
    /\ task = [s \in StageSet |-> "none"]
    /\ exit_status = [s \in StageSet |-> -1]
    /\ run_order = <<>>
    /\ cur = "none"
    /\ pc = "idle"
    /\ snapshot = fs
    /\ indexer = IndexerIdle
    /\ analyst = AnalystIdle
    /\ reporter = ReporterIdle
    /\ \E pdf \in {Garbage} \cup {File("pdf", d, EmptyDict) : d \in ChunkerDocs},
          limit \in 0..MaxTokenLimit :
          parser = ParserStart(pdf, limit)

ChunkerNext ==
    \/ ParserInit
    \/ ChunkPagesStep
    \/ ChunkPagesReturn

SpecChunker == InitChunker /\ [][ChunkerNext]_vars

\* Page p of the document alone is estimated above the token limit.
Oversized(p) == EstimateExceeds(parser.doc[p], parser.token_limit)

\* Some saved chunk has the page list [p].
EmittedAlone(p) ==
    \E i \in 1..Len(parser.chunks) : parser.chunks[i].pages = <<p>>

\* C11: in chunk_pages_by_tokens, a page whose own estimated token count
\* exceeds token_limit is emitted as a chunk whose page list holds that
\* page alone, wherever it occurs in the document, and the chunker does not
\* fail.  During the loop an oversized page already passed either is the
\* whole current chunk or was saved alone; once the chunker has returned,
\* every oversized page was saved alone and the process has not ended in
\* an error.
C11_OversizedPageAlone ==
    /\ parser.pc = "chunk_loop" =>
          \A p \in 1..parser.page_num :
             Oversized(p) =>
                \/ p = parser.page_num /\ parser.current_chunk_pages = <<p>>
                \/ p < parser.page_num /\ EmittedAlone(p)
    /\ parser.pc = "query_llm" =>
          /\ parser.exit # 1
          /\ \A p \in 1..Len(parser.doc) : Oversized(p) => EmittedAlone(p)
    /\ parser.pdf.kind = "pdf" => parser.exit # 1

\* The chunker has returned for a document of three pages whose middle page
\* alone is oversized, and that page is the second of three chunks.
C11_Witness ==
    /\ parser.pc = "query_llm"
    /\ Len(parser.doc) = 3
    /\ Oversized(2) /\ ~Oversized(1) /\ ~Oversized(3)
    /\ Len(parser.chunks) = 3
    /\ parser.chunks[2].pages = <<2>>

====
